---- MODULE Spec2Model ----
(***************************************************************************)
(* rtl433-doorbell: the event intake loop and the action supervisor of     *)
(* src/main.rs (main, Application::run, Application::run_action and the    *)
(* completion watcher it spawns), the cancellation primitive of            *)
(* src/cancelable.rs (CancelHandle::cancel, Cancelable::poll), the decoding *)
(* of one line in src/event.rs, and the fan-out server of src/server.rs    *)
(* (accept, one read loop and one write loop per connection, Broadcaster). *)
(*                                                                         *)
(* The program runs on one thread (current_thread runtime + LocalSet).     *)
(* A task gives up the thread only at an `.await`; every `.await` of the   *)
(* source is a position of the model and the code between two awaits is    *)
(* one action.  An await on the tokio Mutex may or may not suspend (the    *)
(* cooperative budget decides), so other tasks may or may not run there.   *)
(***************************************************************************)
EXTENDS Naturals, Integers, Sequences, FiniteSets, TLC

\* ------------------------------------------------------------------ bounds
MaxLines == 3       \* lines the decoder emits before its stream ends
MaxFilterLines == 1 \* the same, in the runs over every filter and every line
MaxCancels == 2     \* calls of CancelHandle::cancel in one run
MaxSpawn == 3       \* action processes spawned in one run
NumPids  == 2       \* process identifiers the operating system hands out
MaxSend  == 3       \* DingDong messages published in one run of the server
MaxLagSend == 11    \* the same, in the runs where a receiver falls behind

Pids  == 1..NumPids
Insts == 1..MaxSpawn          \* one per spawned child (and its watcher task)
Vals  == {1, 2}               \* values of group / unit / id / channel
None  == 0                    \* Option::None of a filter constraint
Tokens == {"ON", "OFF", "MAYBE"}
Conns  == {1, 2}                    \* connections, in the order they are accepted
Times  == {"2019-12-11 15:21:51"}   \* values of the time field
Models == {"Proove-Security"}       \* values of the model field

VARIABLES
    options,    \* Options: skip_busy, kill_busy, group, unit, id, channel
    pc,         \* position of the intake task (run / run_action)
    actions,    \* Application::actions: pid -> watcher (JoinHandle)
    proc,       \* per child: "unborn", "running", "exited" (zombie), "reaped"
    pidOf,      \* per child: the identifier the OS gave it
    watcher,    \* per child: position of its completion watcher
    pid,        \* run_action's local `pid`
    join,       \* run_action's local `join`
    nlines,     \* lines read so far
    nspawn,     \* children spawned so far
    event,      \* the Event decoded from the last line
    result,     \* how the last run_action call / loop iteration ended
    signalled,  \* children that received SIGTERM
    \* ---- observation of the run (history, read by no action guard)
    forwarded,  \* was the last decoded event handed to run_action
    called,     \* line numbers handed to run_action, in call order
    inflight,   \* line numbers whose run_action call has not returned
    snap,       \* the mapping when the current run_action call started
    seen,       \* the mapping as the current call first observed it under the lock
    drained,    \* watchers the current call removed and signalled in the kill-busy loop
    failure,    \* why run returned an error
    held,       \* the task that is suspended with a guard of `actions` alive, or "none"
    exitcode,   \* "none" while main runs, then the status the process exited with
    \* ---- src/cancelable.rs: one Cancelable and its CancelHandle
    cancelled,  \* CancelInner::cancelled
    waker,      \* CancelInner::waker: "none", or "task" once the task's waker is registered
    inner,      \* the wrapped future: "pending" or "ready" (its next poll yields a result)
    woken,      \* the task that owns the Cancelable is scheduled to be polled
    ppc,        \* position inside Cancelable::poll: "idle", "register", "check"
    cpc,        \* position inside CancelHandle::cancel: "idle", "wake"
    polled,     \* what the last poll returned: "none", "pending", "completed", "cancelled"
    \* ---- observation
    polls,      \* polls started
    ncancel,    \* cancel() calls started
    early,      \* cancel() had been called when the first poll started
    firstInner, \* what the inner future was at the first poll
    late,       \* cancel() was called after the wrapper had completed
    \* ---- src/event.rs: one line handed to serde_json::from_str::<Event>
    line,       \* the line
    decoded,    \* NotDecoded before the call, then the Result it returned
    \* ---- src/server.rs
    listener,   \* "accepting", or "failed" once Server::run has returned an error
    nsend,      \* calls of broadcast::Sender::send so far
    stored,     \* the messages the channel has stored, oldest first
    rd,         \* per connection: its read loop: "none", "read", "eof", "err"
    wr,         \* per connection: its write loop: "none", "spawned" (not polled
                \* yet), "recv", "flush", "err"
    next,       \* per connection: the position of its receiver in `stored`
    inhand,     \* per connection: the message its write loop is writing, or 0
    \* ---- observation
    written,    \* per connection: the messages whose line was flushed to the peer
    accAt,      \* per connection: nsend when the connection was accepted
    lags,       \* per connection: its receiver has been told that it lagged
    sources     \* the Sources of the messages published so far

avars == <<options, pc, actions, proc, pidOf, watcher, pid, join, nlines, nspawn,
           event, result, signalled, forwarded, called, inflight, snap, seen,
           drained, failure, held, exitcode>>
cvars == <<cancelled, waker, inner, woken, ppc, cpc, polled, polls, ncancel, early,
           firstInner, late>>
dvars == <<line, decoded>>
svars == <<listener, nsend, stored, rd, wr, next, inhand, written, accAt, lags,
          sources>>
vars == <<avars, cvars, dvars, svars>>

\* ------------------------------------------------------- values and helpers
OptVals  == Vals \cup {None}
Lines    == [time: Times, model: Models, group: Vals, unit: Vals, id: Vals,
             channel: Vals, state: Tokens]
NoEvent  == [time |-> "", model |-> "", group |-> 0, unit |-> 0, id |-> 0,
             channel |-> 0, state |-> FALSE]
NoLine   == [time |-> "", model |-> "", group |-> 0, unit |-> 0, id |-> 0,
             channel |-> 0, state |-> ""]
NotDecoded == [done |-> FALSE]
EmptyMap == [p \in {} |-> 0]
NotSeen  == [p \in {0} |-> 0]     \* "the call has not looked at the mapping yet"

\* result: "none" (no call yet), "filtered" (the line was not forwarded),
\* "pending" (a run_action call is in progress), or what the call returned
OkResults  == {"ok_skipped", "ok_spawned"}      \* run_action returned Ok(())
ErrResults == {"err_spawn", "err_pid"}          \* run_action returned Err(..)
Terminal   == {"run_ok", "run_err", "panicked"} \* run has returned / aborted

Range(m)      == {m[p] : p \in DOMAIN m}
MapRemove(m, q)    == [p \in DOMAIN m \ {q} |-> m[p]]
MapInsert(m, q, j) == [p \in DOMAIN m \cup {q} |-> IF p = q THEN j ELSE m[p]]
MinKey(m)     == CHOOSE q \in DOMAIN m : \A r \in DOMAIN m : q <= r

\* a state decoder that takes every unknown token for "OFF"
StateOkLax(tok) == TRUE

\* deserialize_state: "ON" -> true, "OFF" -> false, anything else an error
StateOk(tok) == tok \in {"ON", "OFF"}
StateOf(tok) == tok = "ON"

\* serde_json::from_str::<Event>: the fields verbatim, the state decoded
DecodeOk(ln) == StateOk(ln.state)
Decode(ln)   == [time |-> ln.time, model |-> ln.model, group |-> ln.group,
                 unit |-> ln.unit, id |-> ln.id, channel |-> ln.channel,
                 state |-> StateOf(ln.state)]

\* option.as_ref().map(|x| *x == field): None, Some(true) or Some(false)
OptEq(c, v) == IF c = None THEN "None" ELSE IF c = v THEN "SomeTrue" ELSE "SomeFalse"

\* identifiers no live or unreaped child holds: the OS may hand these out
FreePids == Pids \ {pidOf[i] : i \in {k \in Insts : proc[k] \in {"running", "exited"}}}

\* libc::kill(pid, SIGTERM): delivered to the running child that holds pid, if any
Kill(q) == signalled \cup {i \in Insts : pidOf[i] = q /\ proc[i] = "running"}

\* a loop that read on while a run_action call is still suspended
CanReadEarly == pc \in {"next_line", "skip_lock", "kill_lock", "kill_join", "insert_lock"}

\* the intake loop is at `lines.next_line().await`: run_action is awaited in place,
\* so the loop is there only when no call is in progress
CanRead == pc = "next_line"

\* a kill-busy loop whose guard lives on across `join.await`
GuardAcrossJoin(pos) == IF pos = "kill_join" THEN "intake" ELSE "none"

\* the guard of `actions` the intake task keeps while suspended at pos: none.  The
\* guards of lines 179 and 189 are locals of blocks that end (lines 184, 195)
\* before the next await, and nothing is awaited after the lock of line 230
GuardAcross(pos) == "none"

\* tokio Mutex::lock().await completes only while no guard is alive
LockFree == held = "none"

\* a busy test that never finds the mapping busy
BusyNever(m) == FALSE

\* `!actions.is_empty()` of line 180
Busy(m) == DOMAIN m # {}

\* a filter that forgets the channel constraint
FilterNoChannel(o, e) ==
    IF OptEq(o.group, e.group) = "SomeFalse" THEN FALSE
    ELSE IF OptEq(o.unit, e.unit) = "SomeFalse" THEN FALSE
    ELSE IF OptEq(o.id, e.id) = "SomeFalse" THEN FALSE
    ELSE TRUE

\* the four `continue` tests of run, in the order of the source
Filter(o, e) ==
    IF OptEq(o.group, e.group) = "SomeFalse" THEN FALSE
    ELSE IF OptEq(o.unit, e.unit) = "SomeFalse" THEN FALSE
    ELSE IF OptEq(o.id, e.id) = "SomeFalse" THEN FALSE
    ELSE IF OptEq(o.channel, e.channel) = "SomeFalse" THEN FALSE
    ELSE TRUE

\* ------------------------------------------------------------------ Init
\* every Options value the command line can produce (kill-busy conflicts with skip-busy)
AllOptions == {o \in [skip_busy: BOOLEAN, kill_busy: BOOLEAN, group: OptVals,
                      unit: OptVals, id: OptVals, channel: OptVals] :
                   ~(o.skip_busy /\ o.kill_busy)}

\* the runs of the supervisor: each busy policy, with and without a filter
RunOptions == {o \in AllOptions : /\ o.group = None /\ o.unit = None /\ o.id = None
                                  /\ o.channel \in {None, 1}}
RunLines == {l \in Lines : /\ l.group = 1 /\ l.unit = 2 /\ l.id = 1
                            /\ <<l.channel, l.state>> \in
                                   {<<1, "ON">>, <<2, "OFF">>, <<1, "MAYBE">>}}

\* Server::new: the listener is bound, nothing is connected; the receiver that
\* broadcast::channel returned is dropped at once (line 39)
InitServer ==
    /\ listener = "accepting"
    /\ nsend = 0
    /\ stored = <<>>
    /\ rd = [c \in Conns |-> "none"]
    /\ wr = [c \in Conns |-> "none"]
    /\ next = [c \in Conns |-> 0]
    /\ inhand = [c \in Conns |-> 0]
    /\ written = [c \in Conns |-> <<>>]
    /\ accAt = [c \in Conns |-> 0]
    /\ lags = [c \in Conns |-> FALSE]
    /\ sources = {}

\* Application::new: the decoder is running, no action has been spawned, and run
\* is about to wait for the decoder's first line
InitWith(opts) ==
    /\ options \in opts
    /\ pc = "next_line"
    /\ actions = EmptyMap
    /\ proc = [i \in Insts |-> "unborn"]
    /\ pidOf = [i \in Insts |-> 0]
    /\ watcher = [i \in Insts |-> "none"]
    /\ pid = 0
    /\ join = 0
    /\ nlines = 0
    /\ nspawn = 0
    /\ event = NoEvent
    /\ result = "none"
    /\ signalled = {}
    /\ forwarded = FALSE
    /\ called = <<>>
    /\ inflight = {}
    /\ snap = EmptyMap
    /\ seen = NotSeen
    /\ drained = {}
    /\ failure = "none"
    /\ held = "none"
    /\ exitcode = "none"
    /\ InitServer

\* cancelable(future): the flag unset, no waker registered, nothing polled yet;
\* the task that owns the wrapper is about to poll it for the first time
InitCancelable ==
    /\ cancelled = FALSE
    /\ waker = "none"
    /\ inner \in {"pending", "ready"}
    /\ woken = TRUE
    /\ ppc = "idle"
    /\ cpc = "idle"
    /\ polled = "none"
    /\ polls = 0
    /\ ncancel = 0
    /\ early = FALSE
    /\ firstInner = "none"
    /\ late = FALSE

\* no line is being decoded on its own
InitIdle == line = NoLine /\ decoded = NotDecoded

Init == InitWith(RunOptions) /\ InitCancelable /\ inner = "pending" /\ InitIdle

\* --------------------------------------------------------- run_action parts
\* a return whose error leaves run through a `?` instead of being logged
ReturnPropagates(res, infl, cur) ==
    /\ pc' = IF res \in ErrResults THEN "run_err" ELSE "next_line"
    /\ result' = res
    /\ inflight' = infl \ {cur}
    /\ pid' = 0
    /\ join' = 0

\* run_action returns to the loop of run (lines 169-171: an Err is printed),
\* which goes on to the next line
Return(res, infl, cur) ==
    /\ pc' = "next_line"
    /\ result' = res
    /\ inflight' = infl \ {cur}
    /\ pid' = 0
    /\ join' = 0

\* lines 202-230: build the command, spawn it, take its pid, spawn the watcher,
\* and arrive at the lock of the insertion.  outcome is the environment's answer.
Spawn(outcome, p, infl, cur) ==
    \/ /\ outcome = "fail"
       /\ Return("err_spawn", infl, cur)
       /\ UNCHANGED <<proc, pidOf, watcher, nspawn>>
    \/ /\ outcome = "nopid"
       /\ nspawn < MaxSpawn
       /\ p \in FreePids
       /\ nspawn' = nspawn + 1
       /\ proc' = [proc EXCEPT ![nspawn + 1] = "running"]
       /\ pidOf' = [pidOf EXCEPT ![nspawn + 1] = p]
       /\ Return("err_pid", infl, cur)
       /\ UNCHANGED watcher
    \/ /\ outcome = "ok"
       /\ nspawn < MaxSpawn
       /\ p \in FreePids
       /\ nspawn' = nspawn + 1
       /\ proc' = [proc EXCEPT ![nspawn + 1] = "running"]
       /\ pidOf' = [pidOf EXCEPT ![nspawn + 1] = p]
       /\ watcher' = [watcher EXCEPT ![nspawn + 1] = "wait"]
       /\ pid' = p
       /\ join' = nspawn + 1
       /\ pc' = "insert_lock"
       /\ inflight' = infl
       /\ result' = "pending"

\* run_action from its call to its first await (or its return)
Enter(outcome, p, infl, cur) ==
    /\ snap' = actions
    /\ drained' = {}
    /\ seen' = NotSeen
    /\ IF options.skip_busy
       THEN /\ pc' = "skip_lock"
            /\ inflight' = infl
            /\ result' = "pending"
            /\ UNCHANGED <<proc, pidOf, watcher, nspawn, pid, join>>
       ELSE IF options.kill_busy
       THEN /\ pc' = "kill_lock"
            /\ inflight' = infl
            /\ result' = "pending"
            /\ UNCHANGED <<proc, pidOf, watcher, nspawn, pid, join>>
       ELSE Spawn(outcome, p, infl, cur)

\* ------------------------------------------------------------ intake: run
\* a decode failure that is reported and skipped like a filtered line
DecodeFailureSkipped ==
    /\ pc' = pc
    /\ failure' = "decode"

\* the `?` of lines 150-151: a line that does not decode makes run return the error
DecodeFailure ==
    /\ pc' = "run_err"
    /\ failure' = "decode"

\* next_line() yields a line: decode it, filter it, call run_action
ReadLine(ln, outcome, p) ==
    /\ CanRead
    /\ nlines' = nlines + 1
    /\ IF ~DecodeOk(ln)
       THEN /\ DecodeFailure
            /\ result' = "none"
            /\ UNCHANGED <<actions, proc, pidOf, watcher, pid, join, nspawn, event,
                           signalled, forwarded, called, inflight, snap, seen,
                           drained>>
       ELSE /\ event' = Decode(ln)
            /\ IF ~Filter(options, Decode(ln))
               THEN \* one of the four `continue`
                    /\ forwarded' = FALSE
                    /\ result' = "filtered"
                    /\ UNCHANGED <<pc, actions, proc, pidOf, watcher, pid, join,
                                   nspawn, signalled, called, inflight, snap, seen,
                                   drained, failure>>
               ELSE /\ forwarded' = TRUE
                    /\ called' = Append(called, nlines + 1)
                    /\ Enter(outcome, p, inflight \cup {nlines + 1}, nlines + 1)
                    /\ UNCHANGED <<actions, signalled, failure>>
    /\ UNCHANGED options
    /\ held' = GuardAcross(pc')
    /\ UNCHANGED exitcode

\* next_line() yields None: the decoder closed its output, run returns Ok(())
ReadEof ==
    /\ CanRead
    /\ pc' = "run_ok"
    /\ UNCHANGED <<options, actions, proc, pidOf, watcher, pid, join, nlines, nspawn,
                   event, result, signalled, forwarded, called, inflight, snap, seen,
                   drained, failure>>
    /\ held' = GuardAcross(pc')
    /\ UNCHANGED exitcode

\* next_line() yields Err: the `?` of line 149, run returns the error
ReadError ==
    /\ CanRead
    /\ pc' = "run_err"
    /\ failure' = "read"
    /\ UNCHANGED <<options, actions, proc, pidOf, watcher, pid, join, nlines, nspawn,
                   event, result, signalled, forwarded, called, inflight, snap, seen,
                   drained>>
    /\ held' = GuardAcross(pc')
    /\ UNCHANGED exitcode

\* --------------------------------------------------- supervisor: run_action
\* lines 178-184, then on to the kill-busy loop or to the spawn
SkipCheck(outcome, p) ==
    /\ pc = "skip_lock"
    /\ LockFree
    /\ seen' = actions
    /\ IF Busy(actions)
       THEN /\ Return("ok_skipped", inflight, nlines)
            /\ UNCHANGED <<proc, pidOf, watcher, nspawn>>
       ELSE IF options.kill_busy
       THEN /\ pc' = "kill_lock"
            /\ UNCHANGED <<proc, pidOf, watcher, nspawn, pid, join, result, inflight>>
       ELSE Spawn(outcome, p, inflight, nlines)
    /\ UNCHANGED <<options, actions, nlines, event, signalled, forwarded, called,
                   snap, drained, failure>>
    /\ held' = GuardAcross(pc')
    /\ UNCHANGED exitcode

\* lines 187-197: one round of the kill-busy loop, up to `join.await`;
\* on an empty mapping the loop breaks and the spawn follows
KillLock(outcome, p) ==
    /\ pc = "kill_lock"
    /\ LockFree
    /\ seen' = IF seen = NotSeen THEN actions ELSE seen
    /\ IF DOMAIN actions = {}
       THEN /\ Spawn(outcome, p, inflight, nlines)
            /\ UNCHANGED <<actions, signalled, drained>>
       ELSE /\ actions' = MapRemove(actions, MinKey(actions))
            /\ signalled' = Kill(MinKey(actions))
            /\ drained' = drained \cup {actions[MinKey(actions)]}
            /\ pid' = MinKey(actions)
            /\ join' = actions[MinKey(actions)]
            /\ pc' = "kill_join"
            /\ UNCHANGED <<proc, pidOf, watcher, nspawn, result, inflight>>
    /\ UNCHANGED <<options, nlines, event, forwarded, called, snap, failure>>
    /\ held' = GuardAcross(pc')
    /\ UNCHANGED exitcode

\* a kill-busy loop that signals the action and does not await its watcher
KillJoinNoWait ==
    /\ pc = "kill_join"
    /\ pc' = "kill_lock"
    /\ pid' = 0
    /\ join' = 0
    /\ UNCHANGED <<options, actions, proc, pidOf, watcher, nlines, nspawn, event,
                   result, signalled, forwarded, called, inflight, snap, seen,
                   drained, failure>>
    /\ held' = GuardAcross(pc')
    /\ UNCHANGED exitcode

\* line 198: `join.await` completes once the removed watcher has finished
KillJoin ==
    /\ pc = "kill_join"
    /\ watcher[join] = "done"
    /\ pc' = "kill_lock"
    /\ pid' = 0
    /\ join' = 0
    /\ UNCHANGED <<options, actions, proc, pidOf, watcher, nlines, nspawn, event,
                   result, signalled, forwarded, called, inflight, snap, seen,
                   drained, failure>>
    /\ held' = GuardAcross(pc')
    /\ UNCHANGED exitcode

\* lines 230-235: insert pid -> join; an existing entry is a panic
Insert ==
    /\ pc = "insert_lock"
    /\ LockFree
    /\ IF pid \in DOMAIN actions
       THEN /\ pc' = "panicked"
            /\ failure' = "panic"
            /\ UNCHANGED <<actions, pid, join, result, inflight>>
       ELSE /\ actions' = MapInsert(actions, pid, join)
            /\ Return("ok_spawned", inflight, nlines)
            /\ UNCHANGED failure
    /\ UNCHANGED <<options, proc, pidOf, watcher, nlines, nspawn, event, signalled,
                   forwarded, called, snap, seen, drained>>
    /\ held' = GuardAcross(pc')
    /\ UNCHANGED exitcode

\* ------------------------------------------- children and completion watchers
\* an action process ends (by itself or by the signal): it becomes a zombie
ProcExit(i) ==
    /\ proc[i] = "running"
    /\ proc' = [proc EXCEPT ![i] = "exited"]
    /\ UNCHANGED <<options, pc, actions, pidOf, watcher, pid, join, nlines, nspawn,
                   event, result, signalled, forwarded, called, inflight, snap, seen,
                   drained, failure>>
    /\ held' = GuardAcross(pc')
    /\ UNCHANGED exitcode

\* lines 224-226: child.wait() reaps the child; the watcher goes on to the lock
WatcherWait(i) ==
    /\ pc \notin Terminal
    /\ watcher[i] = "wait"
    /\ proc[i] = "exited"
    /\ proc' = [proc EXCEPT ![i] = "reaped"]
    /\ watcher' = [watcher EXCEPT ![i] = "lock"]
    /\ UNCHANGED <<options, pc, actions, pidOf, pid, join, nlines, nspawn, event,
                   result, signalled, forwarded, called, inflight, snap, seen,
                   drained, failure>>
    /\ held' = GuardAcross(pc')
    /\ UNCHANGED exitcode

\* lines 226-228: actions.remove(&pid), and the watcher task ends
WatcherRemove(i) ==
    /\ pc \notin Terminal
    /\ watcher[i] = "lock"
    /\ LockFree
    /\ actions' = MapRemove(actions, pidOf[i])
    /\ watcher' = [watcher EXCEPT ![i] = "done"]
    /\ UNCHANGED <<options, pc, proc, pidOf, pid, join, nlines, nspawn, event,
                   result, signalled, forwarded, called, inflight, snap, seen,
                   drained, failure>>
    /\ held' = GuardAcross(pc')
    /\ UNCHANGED exitcode

\* a child whose pid could not be obtained is dropped unsupervised (line 220);
\* once it has ended the runtime reaps it
OrphanReap(i) ==
    /\ watcher[i] = "none"
    /\ proc[i] = "exited"
    /\ proc' = [proc EXCEPT ![i] = "reaped"]
    /\ UNCHANGED <<options, pc, actions, pidOf, watcher, pid, join, nlines, nspawn,
                   event, result, signalled, forwarded, called, inflight, snap, seen,
                   drained, failure>>
    /\ held' = GuardAcross(pc')
    /\ UNCHANGED exitcode

\* main, lines 92-108: run has returned; an Err is printed and the process exits
\* with status 1, else main returns (status 0).  The loop that would kill the
\* actions (lines 101-104) is commented out: nothing is signalled.  The action
\* processes are not children of the runtime any more and live on.
MainExit ==
    /\ pc \in {"run_ok", "run_err"}
    /\ exitcode = "none"
    /\ exitcode' = IF pc = "run_err" THEN "1" ELSE "0"
    /\ UNCHANGED <<options, pc, actions, proc, pidOf, watcher, pid, join, nlines,
                   nspawn, event, result, signalled, forwarded, called, inflight,
                   snap, seen, drained, failure, held>>

SpawnOutcomes == {"fail", "nopid", "ok"}

Next ==
    \/ \E ln \in RunLines, outcome \in SpawnOutcomes, p \in Pids :
          nlines < MaxLines /\ ReadLine(ln, outcome, p) /\ UNCHANGED <<cvars, dvars, svars>>
    \/ ReadEof /\ UNCHANGED <<cvars, dvars, svars>>
    \/ ReadError /\ UNCHANGED <<cvars, dvars, svars>>
    \/ \E outcome \in SpawnOutcomes, p \in Pids : SkipCheck(outcome, p) /\ UNCHANGED <<cvars, dvars, svars>>
    \/ \E outcome \in SpawnOutcomes, p \in Pids : KillLock(outcome, p) /\ UNCHANGED <<cvars, dvars, svars>>
    \/ KillJoin /\ UNCHANGED <<cvars, dvars, svars>>
    \/ Insert /\ UNCHANGED <<cvars, dvars, svars>>
    \/ \E i \in Insts : ProcExit(i) /\ UNCHANGED <<cvars, dvars, svars>>
    \/ \E i \in Insts : WatcherWait(i) /\ UNCHANGED <<cvars, dvars, svars>>
    \/ \E i \in Insts : WatcherRemove(i) /\ UNCHANGED <<cvars, dvars, svars>>
    \/ \E i \in Insts : OrphanReap(i) /\ UNCHANGED <<cvars, dvars, svars>>
    \/ MainExit /\ UNCHANGED <<cvars, dvars, svars>>

Spec == Init /\ [][Next]_vars

\* the same program with every filter the command line can set and every line the
\* decoder can emit, over runs in which no action process ends
InitFilter == InitWith(AllOptions) /\ InitCancelable /\ inner = "pending" /\ InitIdle

NextFilter ==
    \/ \E ln \in Lines, outcome \in SpawnOutcomes, p \in Pids :
          nlines < MaxFilterLines /\ ReadLine(ln, outcome, p) /\ UNCHANGED <<cvars, dvars, svars>>
    \/ ReadEof /\ UNCHANGED <<cvars, dvars, svars>>
    \/ ReadError /\ UNCHANGED <<cvars, dvars, svars>>
    \/ \E outcome \in SpawnOutcomes, p \in Pids : SkipCheck(outcome, p) /\ UNCHANGED <<cvars, dvars, svars>>
    \/ \E outcome \in SpawnOutcomes, p \in Pids : KillLock(outcome, p) /\ UNCHANGED <<cvars, dvars, svars>>
    \/ Insert /\ UNCHANGED <<cvars, dvars, svars>>
    \/ MainExit /\ UNCHANGED <<cvars, dvars, svars>>

SpecFilter == InitFilter /\ [][NextFilter]_vars

\* ------------------------------------------------- src/cancelable.rs
\* The steps of poll and of cancel are separate actions, so that a cancel may
\* fall between any two statements of a poll.
TerminalOutcomes == {"completed", "cancelled"}

\* a cancel that flips the flag instead of setting it
SetFlagToggles(c) == ~c

\* line 40: self.inner.cancelled.set(true)
SetFlag(c) == TRUE

\* line 41: AtomicWaker::wake takes the registered waker, if any, and wakes it
WakeSlot(w)     == "none"
WakeTask(w, k)  == k \/ w = "task"

\* a poll that leaves the waker slot as it found it
RegisterForgets(w) == w

\* line 78: AtomicWaker::register(context.waker())
Register(w) == "task"

\* a check that never looks at the flag
CheckIgnoresFlag(c) == "pending"

\* lines 79-83: Ready(Err(Cancelled)) if the flag is set, else Pending
Check(c) == IF c THEN "cancelled" ELSE "pending"

\* a poll that looks at the flag before it polls the inner future
FlagFirst(i, c) == i = "ready" /\ ~c

\* lines 74-76: the inner future is polled first and its result returned at once;
\* the flag is not read on this path
InnerFirst(i, c) == i = "ready"

\* lines 73-76: the scheduled task polls the wrapper, which polls the inner future
\* first; a result of the inner future is returned at once as Ready(Ok(x))
PollInner ==
    /\ woken
    /\ ppc = "idle"
    /\ polled \notin TerminalOutcomes
    /\ woken' = FALSE
    /\ polls' = polls + 1
    /\ early' = IF polls = 0 THEN ncancel > 0 ELSE early
    /\ firstInner' = IF polls = 0 THEN inner ELSE firstInner
    /\ IF InnerFirst(inner, cancelled)
       THEN polled' = "completed" /\ ppc' = "idle"
       ELSE polled' = polled /\ ppc' = "register"
    /\ UNCHANGED <<cancelled, waker, inner, cpc, ncancel, late>>
    /\ UNCHANGED <<avars, dvars, svars>>

\* line 78
PollRegister ==
    /\ ppc = "register"
    /\ waker' = Register(waker)
    /\ ppc' = "check"
    /\ UNCHANGED <<cancelled, inner, woken, cpc, polled, polls, ncancel, early,
                   firstInner, late>>
    /\ UNCHANGED <<avars, dvars, svars>>

\* lines 79-83
PollCheck ==
    /\ ppc = "check"
    /\ polled' = Check(cancelled)
    /\ ppc' = "idle"
    /\ UNCHANGED <<cancelled, waker, inner, woken, cpc, polls, ncancel, early,
                   firstInner, late>>
    /\ UNCHANGED <<avars, dvars, svars>>

\* line 40
CancelSet ==
    /\ cpc = "idle"
    /\ ncancel < MaxCancels
    /\ ncancel' = ncancel + 1
    /\ cancelled' = SetFlag(cancelled)
    /\ late' = (late \/ polled = "completed")
    /\ cpc' = "wake"
    /\ UNCHANGED <<waker, inner, woken, ppc, polled, polls, early, firstInner>>
    /\ UNCHANGED <<avars, dvars, svars>>

\* line 41
CancelWake ==
    /\ cpc = "wake"
    /\ woken' = WakeTask(waker, woken)
    /\ waker' = WakeSlot(waker)
    /\ cpc' = "idle"
    /\ UNCHANGED <<cancelled, inner, ppc, polled, polls, ncancel, early, firstInner,
                   late>>
    /\ UNCHANGED <<avars, dvars, svars>>

\* the wrapped future becomes ready; having been polled (line 74, with the task's
\* context) it wakes the task
InnerReady ==
    /\ inner = "pending"
    /\ inner' = "ready"
    /\ woken' = (woken \/ polls > 0)
    /\ UNCHANGED <<cancelled, waker, ppc, cpc, polled, polls, ncancel, early,
                   firstInner, late>>
    /\ UNCHANGED <<avars, dvars, svars>>

InitCancel == InitWith({CHOOSE o \in RunOptions : TRUE}) /\ InitCancelable /\ InitIdle

NextCancel ==
    \/ PollInner
    \/ PollRegister
    \/ PollCheck
    \/ CancelSet
    \/ CancelWake
    \/ InnerReady

SpecCancel == InitCancel /\ [][NextCancel]_vars

\* the executor polls a scheduled task, and a started poll or cancel runs on
SpecCancelFair ==
    /\ SpecCancel
    /\ WF_vars(PollInner) /\ WF_vars(PollRegister) /\ WF_vars(PollCheck)
    /\ WF_vars(CancelWake)

\* ------------------------------------------------------ src/event.rs alone
\* the lines given to the decoder: every field over several values, the state
\* token over the two the decoder knows and others
DecodeVals   == {1, 2, 3, 4}
DecodeTimes  == Times \cup {"2020-01-01 00:00:00"}
DecodeModels == Models \cup {"Nexa-Security"}
DecodeTokens == Tokens \cup {"on", "off", ""}
DecodeLines  == [time: DecodeTimes, model: DecodeModels, group: DecodeVals,
                 unit: DecodeVals, id: DecodeVals, channel: DecodeVals,
                 state: DecodeTokens]

\* SAMPLE of the unit test test_decode
Sample == [time |-> "2019-12-11 15:21:51", model |-> "Proove-Security", id |-> 3,
           channel |-> 4, state |-> "ON", unit |-> 2, group |-> 1]

\* serde_json::from_str::<Event>(line): Ok(event) or Err
FromStr ==
    /\ decoded = NotDecoded
    /\ decoded' = IF DecodeOk(line)
                  THEN [done |-> TRUE, ok |-> TRUE, event |-> Decode(line)]
                  ELSE [done |-> TRUE, ok |-> FALSE]
    /\ UNCHANGED <<line, avars, cvars, svars>>

InitDecode ==
    /\ InitWith({CHOOSE o \in RunOptions : TRUE})
    /\ InitCancelable /\ inner = "pending"
    /\ line \in DecodeLines
    /\ decoded = NotDecoded

NextDecode == FromStr

SpecDecode == InitDecode /\ [][NextDecode]_vars

\* ------------------------------------------------------------ src/server.rs
\* The fan-out channel is tokio's broadcast channel as its documentation describes
\* it: send never waits; it fails, and the value is dropped, when no receiver
\* exists; the channel retains the last Capacity values; a receiver that is more
\* than Capacity values behind is told so once (Lagged) and moved to the oldest
\* retained value.  Every message is a DingDong; the Source it carries is read by
\* no one, so a message is named by the number of the send call that published
\* it and the sources are kept as an observation.
Capacity == 10

TailPos == Len(stored)         \* position of the newest value
Receivers == {c \in Conns : wr[c] \in {"spawned", "recv", "flush"}}

\* enum Source
Internal  == <<"Internal">>
Socket(c) == <<"Socket", c>>

\* a receiver that skips a value at each receive
AdvanceTwo(k) == k + 2

\* Receiver::recv returned the value after position k: the receiver is past it
Advance(k) == k + 1

\* a channel that never reports a lag and hands out values it no longer retains
LaggingNever(tail, k) == FALSE

\* the receiver at position k is behind the retained window of a channel at tail
Lagging(tail, k) == tail - k > Capacity

\* where a lagged receiver continues: at the oldest retained value
Resync(tail) == tail - Capacity

\* a subscription that starts at the oldest value the channel has seen
SubscribeFromStart(tail) == 0

\* Sender::subscribe: the new receiver sees the values sent from now on
Subscribe(tail) == tail

\* broadcast::Sender::send of one DingDong: Err (the value is dropped) without a
\* receiver, else the value is stored; the caller ignores the result (`let _ =`)
Send(source) ==
    /\ nsend' = nsend + 1
    /\ stored' = IF Receivers = {} THEN stored ELSE Append(stored, nsend + 1)
    /\ sources' = sources \cup {source}

\* Broadcaster::send_ding_dong
SendDingDong ==
    /\ Send(Internal)
    /\ UNCHANGED <<listener, rd, wr, next, inhand, written, accAt, lags>>
    /\ UNCHANGED <<avars, cvars, dvars>>

\* accept_one: a peer connects; the read loop is spawned with a clone of the
\* sender and the write loop with a receiver subscribed here, at line 77
Accept(c) ==
    /\ listener = "accepting"
    /\ wr[c] = "none"
    /\ \A b \in Conns : b < c => wr[b] # "none"
    /\ rd' = [rd EXCEPT ![c] = "read"]
    /\ wr' = [wr EXCEPT ![c] = "spawned"]
    /\ next' = [next EXCEPT ![c] = Subscribe(TailPos)]
    /\ accAt' = [accAt EXCEPT ![c] = nsend]
    /\ UNCHANGED <<listener, nsend, stored, inhand, written, lags, sources>>
    /\ UNCHANGED <<avars, cvars, dvars>>

\* accept fails: the `?` of line 73 and of line 54 end Server::run with the error
AcceptError ==
    /\ listener = "accepting"
    /\ listener' = "failed"
    /\ UNCHANGED <<nsend, stored, rd, wr, next, inhand, written, accAt, lags,
                   sources>>
    /\ UNCHANGED <<avars, cvars, dvars>>

\* run_read_loop: next_line() yields a line; "dingdong" is published, any other
\* line is ignored
ReadPeerLine(c, text) ==
    /\ rd[c] = "read"
    /\ text \in {"dingdong", "hello"}
    /\ IF text = "dingdong" THEN Send(Socket(c))
                            ELSE UNCHANGED <<nsend, stored, sources>>
    /\ UNCHANGED <<listener, rd, wr, next, inhand, written, accAt, lags>>
    /\ UNCHANGED <<avars, cvars, dvars>>

\* run_read_loop ends: next_line() yields None (the peer closed its sending side,
\* the loop returns Ok) or an error (the `?` of line 88).  Only this task ends.
ReadEnd(c, how) ==
    /\ rd[c] = "read"
    /\ how \in {"eof", "err"}
    /\ rd' = [rd EXCEPT ![c] = how]
    /\ UNCHANGED <<listener, nsend, stored, wr, next, inhand, written, accAt, lags,
                   sources>>
    /\ UNCHANGED <<avars, cvars, dvars>>

\* the write-loop task runs for the first time and arrives at receiver.recv().await
WriteStart(c) ==
    /\ wr[c] = "spawned"
    /\ wr' = [wr EXCEPT ![c] = "recv"]
    /\ UNCHANGED <<listener, nsend, stored, rd, next, inhand, written, accAt, lags,
                   sources>>
    /\ UNCHANGED <<avars, cvars, dvars>>

\* lines 106-114: recv() returns.  Lagged: `continue`, the loop receives again.
\* Ok: write_all puts the 9 bytes into the BufWriter, which is empty after every
\* flush, so it does no I/O and cannot fail or wait; the loop arrives at flush.
\* (Closed cannot happen: the Server keeps its Sender.)  With nothing to receive
\* the task stays suspended.
Recv(c) ==
    /\ wr[c] = "recv"
    /\ next[c] < TailPos
    /\ IF Lagging(TailPos, next[c])
       THEN /\ next' = [next EXCEPT ![c] = Resync(TailPos)]
            /\ lags' = [lags EXCEPT ![c] = TRUE]
            /\ UNCHANGED <<wr, inhand>>
       ELSE /\ inhand' = [inhand EXCEPT ![c] = stored[next[c] + 1]]
            /\ next' = [next EXCEPT ![c] = Advance(next[c])]
            /\ wr' = [wr EXCEPT ![c] = "flush"]
            /\ UNCHANGED lags
    /\ UNCHANGED <<listener, nsend, stored, rd, written, accAt, sources>>
    /\ UNCHANGED <<avars, cvars, dvars>>

\* line 115: flush() sends the line to the peer, or fails and ends the write loop
Flush(c, ok) ==
    /\ wr[c] = "flush"
    /\ wr' = [wr EXCEPT ![c] = IF ok THEN "recv" ELSE "err"]
    /\ written' = [written EXCEPT ![c] = IF ok THEN Append(written[c], inhand[c])
                                               ELSE written[c]]
    /\ inhand' = [inhand EXCEPT ![c] = 0]
    /\ UNCHANGED <<listener, nsend, stored, rd, next, accAt, lags, sources>>
    /\ UNCHANGED <<avars, cvars, dvars>>

NextServerOf(conns, sends) ==
    \/ nsend < sends /\ SendDingDong
    \/ \E c \in conns : Accept(c)
    \/ AcceptError
    \/ \E c \in conns, text \in {"dingdong", "hello"} :
          nsend < sends /\ ReadPeerLine(c, text)
    \/ \E c \in conns, how \in {"eof", "err"} : ReadEnd(c, how)
    \/ \E c \in conns : WriteStart(c)
    \/ \E c \in conns : Recv(c)
    \/ \E c \in conns, ok \in BOOLEAN : Flush(c, ok)

NextServer == NextServerOf(Conns, MaxSend)

InitServerSpec ==
    /\ InitWith({CHOOSE o \in RunOptions : TRUE})
    /\ InitCancelable /\ inner = "pending"
    /\ InitIdle

SpecServer == InitServerSpec /\ [][NextServer]_vars

\* the runtime polls a spawned or woken task, and a flush ends (done or failed)
SpecServerFair ==
    /\ SpecServer
    /\ \A c \in Conns : /\ WF_vars(WriteStart(c))
                        /\ WF_vars(Recv(c))
                        /\ WF_vars(\E ok \in BOOLEAN : Flush(c, ok))

\* one connection and enough messages for its receiver to fall behind the
\* retained window
NextServerLag == NextServerOf({1}, MaxLagSend)

SpecServerLag == InitServerSpec /\ [][NextServerLag]_vars

\* ================================================================== claims
\* a step of the intake task in which a run_action call returns r
ReturnStep(r) == result' = r /\ (result = "pending" \/ nlines' = nlines + 1)

Elems(q) == {q[k] : k \in 1..Len(q)}

\* ---- C1
C1_AtSpawn ==
    (options.kill_busy /\ (pc = "insert_lock" \/ result \in {"ok_spawned", "err_pid"})) =>
        /\ \A i \in Range(snap) : watcher[i] = "done" /\ proc[i] = "reaped"
        /\ seen # NotSeen
        /\ Range(seen) \subseteq drained
        /\ \A i \in drained : watcher[i] = "done" /\ proc[i] = "reaped"

C1_Drain ==
    (pc = "kill_lock" /\ pc' = "kill_join") =>
        /\ pid' \in DOMAIN actions /\ join' = actions[pid']
        /\ pid' \notin DOMAIN actions'
        /\ join' \in drained'
        /\ proc[join'] = "running" => join' \in signalled'

C1_Return ==
    (options.kill_busy /\ pc = "insert_lock" /\ pc' = "next_line") =>
        /\ actions = EmptyMap
        /\ result' = "ok_spawned"
        /\ DOMAIN actions' = {pid}
        /\ actions'[pid] = join
        /\ pidOf[join] = pid
        /\ join \notin Range(snap)

C2_Skip ==
    (options.skip_busy /\ pc = "skip_lock" /\ pc' # "skip_lock" /\ DOMAIN actions # {}) =>
        /\ actions' = actions
        /\ nspawn' = nspawn /\ proc' = proc /\ pidOf' = pidOf /\ watcher' = watcher
        /\ signalled' = signalled
        /\ result' = "ok_skipped" /\ result' \in OkResults
        /\ pc' = "next_line"

\* C2: under --skip-busy, a run_action call that finds the mapping non-empty spawns
\* no process, leaves the mapping exactly as it is, and returns Ok(()).
C2_SkipIfBusyLeavesMapping == [][C2_Skip]_vars

C2_Witness ==
    /\ options.skip_busy
    /\ result = "ok_skipped"
    /\ DOMAIN actions # {}
    /\ seen = actions
    /\ nspawn = 1

\* ---- C3
\* C3: the mapping is the truth about running actions: every record belongs to
\* the action spawned with that identifier, and no record is held for an action
\* whose completion watcher has already finished.
C3_MappingIsTruth ==
    \A p \in DOMAIN actions : pidOf[actions[p]] = p /\ watcher[actions[p]] # "done"

\* ---- C4
\* C4 as stated: a call that ends in a spawn failure has removed nothing from the
\* mapping, under every busy policy.
C4_SpawnFailureNeverMutates == result = "err_spawn" => drained = {}

C4_Fail ==
    ReturnStep("err_spawn") =>
        /\ actions' = actions
        /\ nspawn' = nspawn /\ proc' = proc /\ watcher' = watcher
        /\ pc' = "next_line"
        /\ failure' = failure
        /\ options.kill_busy => actions' = EmptyMap
        /\ ~options.kill_busy => drained' = {}

\* C4 (amended): the step in which run_action returns a spawn failure inserts no
\* record and changes nothing in the mapping, and the loop goes on to the next
\* line; under Allow and SkipIfBusy the call has removed nothing, while under
\* KillBusyThenRun the records drained before the spawn stay removed (the
\* mapping is empty).
C4_SpawnFailureAddsNothing == [][C4_Fail]_vars

C4_Witness ==
    /\ result = "err_spawn"
    /\ pc = "next_line"
    /\ options.kill_busy
    /\ drained # {}
    /\ actions = EmptyMap

\* ---- C5
C5_Fatal ==
    failure = "decode" => (pc = "run_err" /\ nlines \notin Elems(called))

C5_Stops ==
    pc \in Terminal =>
        /\ pc' = pc /\ nlines' = nlines /\ called' = called /\ nspawn' = nspawn
        /\ actions' = actions /\ event' = event /\ forwarded' = forwarded

C5_Recoverable ==
    (\E r \in ErrResults : ReturnStep(r)) => pc' = "next_line" /\ failure' = "none"

\* C5: a line that fails to decode makes run return an error: no run_action call
\* is made for that line and afterwards no line is read, filtered or dispatched
\* and nothing is spawned; a spawn failure or a missing process identifier
\* leaves the loop at the next line instead.
C5_DecodeFailureIsFatal == [](C5_Fatal) /\ [][C5_Stops]_vars /\ [][C5_Recoverable]_vars

C5_Witness ==
    /\ failure = "decode"
    /\ pc = "run_err"
    /\ nlines = 2
    /\ result = "none"
    /\ called = <<1>>

\* ---- C6
C6_Order ==
    /\ Cardinality(inflight) <= 1
    /\ inflight # {} => inflight = {nlines}
    /\ pc = "next_line" => inflight = {}
    /\ pc \in {"skip_lock", "kill_lock", "kill_join", "insert_lock"} => inflight = {nlines}
    /\ \A k \in 1..Len(called) : called[k] <= nlines
    /\ \A k \in 1..(Len(called) - 1) : called[k] < called[k + 1]

C6_ReadAfterReturn == nlines' # nlines => (inflight = {} /\ nlines' = nlines + 1)

\* C6: events reach run_action in the order of their lines, and a line is read
\* only when no run_action call is in progress: at most one call is in progress
\* at any time, and it is the call for the last line read.
C6_DispatchInOrder == [](C6_Order) /\ [][C6_ReadAfterReturn]_vars

C6_Witness ==
    /\ Len(called) >= 2
    /\ inflight = {nlines}
    /\ pc = "insert_lock"
    /\ \E i \in Insts : watcher[i] = "lock"
    /\ \E i \in Insts : watcher[i] = "done"

\* ---- C7
ConstraintNames == {"group", "unit", "id", "channel"}

C7_Iff ==
    (nlines > 0 /\ failure # "decode" /\ event # NoEvent) =>
        (forwarded <=> \A f \in ConstraintNames : options[f] = None \/ options[f] = event[f])

C7_Pure ==
    (nlines' = nlines + 1 /\ failure' # "decode") =>
        /\ options' = options
        /\ forwarded' <=> called' = Append(called, nlines')
        /\ ~forwarded' => /\ called' = called /\ actions' = actions /\ pc' = pc
                          /\ nspawn' = nspawn /\ proc' = proc /\ watcher' = watcher
                          /\ inflight' = inflight /\ signalled' = signalled

\* C7: a decoded event is handed to run_action if and only if every constraint
\* that is set equals the event's field of that name (an unset constraint
\* restricts nothing); a line that is filtered out changes nothing of the
\* supervisor, and filtering never changes the constraints.
C7_ForwardedIffAllSetMatch == [](C7_Iff) /\ [][C7_Pure]_vars

C7_Witness ==
    /\ options.group # None /\ options.unit = None
    /\ options.id # None /\ options.channel = None
    /\ nlines = 1
    /\ forwarded
    /\ event.unit # options.group
    /\ called = <<1>>

\* ---- C8
C8_Parked ==
    /\ (cancelled /\ cpc = "idle" /\ ppc = "idle" /\ polled \notin TerminalOutcomes) => woken
    /\ (polled = "pending" /\ ppc = "idle" /\ cpc = "idle" /\ ~woken) =>
           (~cancelled /\ waker = "task")

C8_Observed ==
    (ppc = "check" /\ ppc' = "idle") =>
        /\ cancelled => polled' = "cancelled"
        /\ ~cancelled => (polled' = "pending" /\ waker = "task")

\* C8: no missed wake-up.  A poll whose inner future is pending registers the
\* waker before it reads the flag: a cancel that set the flag before the read is
\* observed (the poll yields cancelled), and one that sets it later finds the
\* waker registered and wakes the task.  The wrapper is never parked pending
\* with the flag set, no cancel in progress and no wake-up issued, and once the
\* flag is set a terminal outcome follows.
C8_NoMissedWakeup ==
    /\ [](C8_Parked)
    /\ [][C8_Observed]_vars
    /\ (cancelled ~> (polled \in TerminalOutcomes))

C8_Witness ==
    /\ polls = 2
    /\ polled = "cancelled"
    /\ firstInner = "pending"
    /\ inner = "pending"
    /\ ~early
    /\ ncancel = 1

\* ---- C9
\* C9: if cancel() was called before the first poll and the inner future yields
\* no result at that poll, the first poll yields cancelled: it never yields
\* pending, and there is no second poll.
C9_CancelBeforeFirstPoll ==
    (early /\ firstInner = "pending") =>
        /\ polled # "pending"
        /\ polls = 1
        /\ ppc = "idle" => polled = "cancelled"

C9_Witness ==
    /\ early
    /\ firstInner = "pending"
    /\ polls = 1
    /\ ppc = "idle"
    /\ polled = "cancelled"

\* ---- C10
C10_Twice ==
    LET once  == [c |-> SetFlag(cancelled), w |-> WakeSlot(waker),
                  k |-> WakeTask(waker, woken)]
        twice == [c |-> SetFlag(once.c), w |-> WakeSlot(once.w),
                  k |-> WakeTask(once.w, once.k)]
    IN  /\ twice = once
        /\ Check(twice.c) = Check(once.c)
        /\ (ncancel >= 1) => cancelled

C10_Monotone == cancelled => cancelled'

C10_LateInert == polled = "completed" => polled' = "completed"

\* C10: cancel() is idempotent and a late cancel is inert: in every state a
\* second cancel() leaves the flag, the waker slot and the scheduling of the task
\* as the first left them; the flag, once set, stays set; and a wrapper that has
\* yielded completed(result) keeps that outcome whatever cancel() does later.
C10_CancelIdempotent == [](C10_Twice) /\ [][C10_Monotone]_vars /\ [][C10_LateInert]_vars

C10_Witness ==
    /\ late
    /\ polled = "completed"
    /\ ncancel = 2
    /\ cpc = "idle"
    /\ cancelled

\* ---------------------------------------------------------------- C17
\* C17: the abort of line 232 ("PID already in map") is never reached: whenever a
\* newly spawned action is inserted, the mapping holds no record under its pid
C17_AbortUnreachable == pc # "panicked"

\* ---------------------------------------------------------------- C20
\* C20: under skip-busy, once every supervised action has exited and its watcher
\* has finished, and no submit is in progress, the mapping is empty (so the next
\* matching event is not skipped)
C20_BusyNotSticky ==
    (/\ options.skip_busy
     /\ pc = "next_line"
     /\ \A i \in Insts : /\ proc[i] \in {"unborn", "reaped"}
                         /\ watcher[i] \in {"none", "done"})
    => actions = EmptyMap

\* ---------------------------------------------------------------- C16
\* the first half of a poll: a result of the inner future completes the wrapper
\* whatever the flag says; otherwise the poll goes on to register the waker
C16_Inner ==
    (polls' = polls + 1) =>
        /\ inner = "ready" => (polled' = "completed" /\ ppc' = "idle")
        /\ inner = "pending" => (polled' = polled /\ ppc' = "register")

\* the second half: the waker is registered, then the flag alone decides
C16_Flag ==
    /\ (ppc = "register" /\ ppc' # "register") => (ppc' = "check" /\ waker' = "task")
    /\ (ppc = "check" /\ ppc' # "check") =>
           /\ ppc' = "idle"
           /\ polled' = "cancelled" <=> cancelled
           /\ polled' = "pending" <=> ~cancelled

\* a terminal outcome is final, and no poll starts after it
C16_Final ==
    polled \in TerminalOutcomes => (polled' = polled /\ polls' = polls)

\* C16: one poll of the wrapper polls the inner future first and yields
\* completed(result) whenever the inner future yields a result, even with the
\* cancel flag set; otherwise it registers the waker and yields cancelled if and
\* only if the flag is set, else pending.  With a caller that polls no more after
\* a terminal outcome, that outcome is the only one and is never replaced.
C16_OutcomeRule == [][C16_Inner]_vars /\ [][C16_Flag]_vars /\ [][C16_Final]_vars

C16_Witness ==
    /\ polled = "completed"
    /\ cancelled
    /\ ~late
    /\ cpc = "idle"
    /\ polls = 2

\* ---------------------------------------------------------------- C14
\* C14: when the process exits because of a fatal error (status 1), no supervised
\* action process is still running
C14_NoActionLeftRunning ==
    exitcode = "1" => \A i \in Insts : watcher[i] # "none" => proc[i] # "running"

\* ---------------------------------------------------------------- C18
\* wherever the tasks are suspended, no guard of the mapping is alive
C18_Released == held = "none"

\* a watcher that waits for the mapping while submit waits for that watcher can
\* take its step
C18_WatcherCanStep ==
    \A i \in Insts :
        (pc = "kill_join" /\ join = i /\ watcher[i] = "lock") =>
            ENABLED (WatcherRemove(i) /\ UNCHANGED <<cvars, dvars, svars>>)

\* the removal of the kill-busy round is done and the signal sent when submit
\* arrives at `join.await`
C18_RemovedBeforeJoin ==
    (pc' = "kill_join" /\ pc # "kill_join") =>
        /\ pid' \notin DOMAIN actions'
        /\ pid' \in DOMAIN actions
        /\ signalled' = Kill(pid')
        /\ held' = "none"

C15_DecodeVerbatim ==
    /\ decoded.done =>
          /\ decoded.ok <=> line.state \in {"ON", "OFF"}
          /\ ~decoded.ok => DOMAIN decoded = {"done", "ok"}
          /\ decoded.ok =>
                /\ \A f \in {"time", "model", "group", "unit", "id", "channel"} :
                       decoded.event[f] = line[f]
                /\ decoded.event.state = TRUE <=> line.state = "ON"
                /\ decoded.event.state = FALSE <=> line.state = "OFF"
    /\ (decoded.done /\ line = Sample) =>
          decoded = [done |-> TRUE, ok |-> TRUE,
                     event |-> [time |-> "2019-12-11 15:21:51",
                                model |-> "Proove-Security", group |-> 1, unit |-> 2,
                                id |-> 3, channel |-> 4, state |-> TRUE]]

C15_Witness ==
    /\ line = Sample
    /\ decoded.done
    /\ decoded.ok
    /\ decoded.event.state

\* ---------------------------------------------------------------- C11
\* the write loop of c is waiting with nothing left to receive
CaughtUp(c) == wr[c] = "recv" /\ next[c] = TailPos

\* the lines written to a connection that never lagged are the messages published
\* since its accept, each once, in publication order
C11_InOrder ==
    \A c \in Conns :
        ~lags[c] => \A k \in 1..Len(written[c]) : written[c][k] = accAt[c] + k

\* and when its write loop has nothing left to receive, none is missing
C11_Complete ==
    \A c \in Conns :
        (CaughtUp(c) /\ ~lags[c]) => Len(written[c]) = nsend - accAt[c]

\* C11: fan-out.  Every connection accepted before a message is published (by a
\* peer's "dingdong" line or by send_ding_dong), and never more than Capacity
\* messages behind, is written one "dingdong" line per message, in publication
\* order, without duplicate or omission: the lines written are always a prefix of
\* the messages published since the accept, and unless the connection's write
\* fails the write loop arrives at having written all of them.
C11_FanOut ==
    /\ [](C11_InOrder)
    /\ [](C11_Complete)
    /\ \A c \in Conns :
           (wr[c] # "none") ~>
               (wr[c] = "err" \/ (CaughtUp(c) /\ Len(written[c]) = nsend - accAt[c]))

C11_Witness ==
    /\ \A c \in Conns : accAt[c] = 0 /\ written[c] = <<1, 2, 3>> /\ CaughtUp(c)
    /\ Internal \in sources
    /\ Socket(1) \in sources
    /\ nsend = 3

\* ---------------------------------------------------------------- C12
\* publishing is always possible, for the Broadcaster and for a reading peer
C12_SendNeverWaits ==
    /\ ENABLED SendDingDong
    /\ \A c \in Conns : rd[c] = "read" => ENABLED ReadPeerLine(c, "dingdong")

\* a receive of a write loop that is more than Capacity messages behind reports
\* the lag: the loop stays at recv, writes nothing, and its receiver stands at the
\* oldest retained message; any other receive hands out the next message
C12_LagStep ==
    \A c \in Conns :
        (wr[c] = "recv" /\ next'[c] # next[c]) =>
            IF TailPos - next[c] > Capacity
            THEN /\ lags'[c]
                 /\ wr'[c] = "recv"
                 /\ written' = written
                 /\ next'[c] = TailPos - Capacity
                 /\ inhand'[c] = 0
            ELSE /\ wr'[c] = "flush"
                 /\ inhand'[c] = stored[next[c] + 1]
                 /\ next'[c] = next[c] + 1
                 /\ lags'[c] = lags[c]

\* what a lagged write loop writes are retained messages, in publication order
C12_Continues ==
    \A c \in Conns :
        \A k \in 1..Len(written[c]) :
            /\ written[c][k] > accAt[c]
            /\ k > 1 => written[c][k] > written[c][k - 1]

\* C12: slow consumers neither stall the publisher nor get dropped.  A send is
\* possible in every state, however far a receiver is behind; a write loop more
\* than Capacity messages behind gets a lag report at its next receive, stays in
\* its loop without an error, continues at the oldest retained message and
\* delivers from there.
C12_SlowConsumer ==
    /\ [](C12_SendNeverWaits)
    /\ [][C12_LagStep]_vars
    /\ [](C12_Continues)

C12_Witness ==
    /\ lags[1]
    /\ accAt[1] = 0
    /\ nsend = Capacity + 1
    /\ written[1] = <<2, 3>>
    /\ wr[1] = "recv"

\* ---------------------------------------------------------------- C13
\* C13: the end of one loop of a connection (disconnection or I/O failure) ends
\* both loops of that connection: once its read loop has ended nothing more is
\* written to it, and once its write loop has failed it publishes nothing more
C13_BothLoopsEnd ==
    [][\A c \in Conns :
          /\ rd[c] \in {"eof", "err"} => written'[c] = written[c]
          /\ (wr[c] = "err" /\ rd[c] = "read") => Socket(c) \notin sources' \ sources]_vars

\* ---------------------------------------------------------------- C19
\* nothing published before the accept is written to the connection, and what is
\* written was stored by the channel
C19_OnlyLater ==
    \A c \in Conns :
        \A k \in 1..Len(written[c]) :
            /\ written[c][k] > accAt[c]
            /\ \E j \in 1..Len(stored) : stored[j] = written[c][k]

\* before the write loop has run at all, its receiver already stands before every
\* message published since the accept
C19_SubscribedAtAccept ==
    \A c \in Conns :
        wr[c] = "spawned" =>
            /\ TailPos - next[c] = nsend - accAt[c]
            /\ \A k \in 1..(nsend - accAt[c]) : stored[next[c] + k] = accAt[c] + k

\* a message published while there is no receiver is not stored
C19_Dropped ==
    (nsend' # nsend /\ Receivers = {}) => stored' = stored

\* C19: the write side is subscribed when the connection is accepted, before its
\* write loop first runs.  No message published before the accept is ever written
\* to the connection, a message published without any subscriber is dropped, and
\* every message published after the accept (within the retained window) is
\* written to it, unless its write fails.
C19_SubscribedOnAccept ==
    /\ [](C19_OnlyLater)
    /\ [](C19_SubscribedAtAccept)
    /\ [][C19_Dropped]_vars
    /\ \A c \in Conns :
           (wr[c] = "spawned") ~>
               (wr[c] = "err" \/ (CaughtUp(c) /\ Len(written[c]) = nsend - accAt[c]))

C19_Witness ==
    /\ accAt[2] = 2
    /\ stored = <<2, 3>>
    /\ written[2] = <<3>>
    /\ written[1] = <<2, 3>>

====
